---------------------------- MODULE Spec2Model ----------------------------
(***************************************************************************)
(* A model of the arret runtime core: the symbol interner                  *)
(* (runtime/intern.rs), the copying collector                              *)
(* (runtime/boxed/heap/collect.rs) with the boxed list, vector and symbol  *)
(* types it walks, and the allocation planner                              *)
(* (compiler/codegen/alloc/plan.rs).                                       *)
(*                                                                         *)
(* Three specifications share the module: SpecIntern drives one Interner   *)
(* through intern / intern_static / clone_for_collect_garbage, SpecGC      *)
(* builds a heap, roots it and runs collect_roots one visit_box iteration  *)
(* at a time, SpecPlan applies plan_allocs to bounded op sequences.        *)
(***************************************************************************)
EXTENDS Integers, Sequences, FiniteSets, TLC

VARIABLES
    \* ---- SpecIntern: one Interner and the history of the calls made on it
    interner,   \* the Interner under test
    last,       \* the most recent call: [op, name, sym]
    handed,     \* <<name, sym>> of every intern/intern_static since the last clone
    statics,    \* <<name, sym>> of every intern_static call ever made
    \* ---- SpecPlan: the input and the result of plan_allocs
    ops,        \* the input op sequence
    captures,   \* the set of registers whose CaptureKind is not Never
    atoms,      \* the result of plan_allocs
    planned,    \* plan_allocs has run
    \* ---- SpecGC: the heaps, the roots and collect_roots' position
    old_heap,   \* the heap being collected: [cells, len, interner]
    new_heap,   \* the heap collect_roots builds
    stack,      \* the Stack-allocated boxes
    roots,      \* the root references, in iteration order
    work,       \* references still to visit, the innermost visit_box first
    phase,      \* "mutate" | "collect" | "done" | "panic"
    snap,       \* the heap, stack and roots as they were when collect_roots was called
    moves,      \* every move_box_to_new_heap call so far: <<source, destination>>
    reinterned, \* every re-interning of a Sym box so far: the box and the handle it held
    \* ---- SpecIds: a global ID type used from several threads
    NEXT_VALUE, \* the static AtomicUsize
    calls,      \* every alloc / alloc_iter call so far and the IDs it produced
    iter        \* per thread: the call whose iterator the thread is draining, or 0

internVars == <<interner, last, handed, statics>>
planVars == <<ops, captures, atoms, planned>>
gcVars == <<old_heap, new_heap, stack, roots, work, phase, snap, moves, reinterned>>
idVars == <<NEXT_VALUE, calls, iter>>
vars == <<internVars, planVars, gcVars, idVars>>

(***************************************************************************)
(* Bounds of the model.                                                    *)
(***************************************************************************)
NumLongNames == 2   \* distinct names longer than INLINE_SIZE bytes
MaxOps == 3         \* length of the op sequence handed to plan_allocs
MaxBoxes == 3       \* boxes the mutator allocates before a collection
MaxRoots == 2       \* roots handed to collect_roots
MaxStatics == 1     \* intern_static calls on the heap's interner before a collection
NumThreads == 2     \* threads allocating IDs
MaxIterLen == 2     \* longest alloc_iter(length)
MaxCalls == 3       \* alloc / alloc_iter calls in all

(***************************************************************************)
(* runtime/intern.rs                                                       *)
(***************************************************************************)
INLINE_FILL_BYTE == 128
LOCAL_INDEXED_FLAG == 129
GLOBAL_INDEXED_FLAG == 130
INLINE_SIZE == 8

\* A name is the sequence of the bytes of a UTF-8 string.
Repeat(byte, n) == [i \in 1..n |-> byte]

\* U+00C0 is the two bytes C3 80; U+00E9 is C3 A9.
ShortNames ==
    { <<>>,
      <<195, 169>>,
      <<195, 128>>,
      Repeat(97, INLINE_SIZE) }

LongName(k) == Repeat(97, INLINE_SIZE) \o Repeat(98, k)
LongNames == { LongName(k) : k \in 1..NumLongNames }
Names == ShortNames \cup LongNames

\* What unintern yields where the Rust code panics (index out of bounds).
PanicStr == <<-1>>

\* InternedSym::try_from_inline_name: Option<InternedSym> as [some, sym].
try_from_inline_name(name) ==
    IF Len(name) <= INLINE_SIZE
    THEN [some |-> TRUE,
          sym  |-> [i \in 1..INLINE_SIZE |->
                        IF i <= Len(name) THEN name[i] ELSE INLINE_FILL_BYTE]]
    ELSE [some |-> FALSE, sym |-> <<>>]

\* InternedIndexed { flag_byte, _padding: [0; 3], name_index: u32 } as its 8 bytes.
InternedIndexed(flag_byte, name_index) ==
    << flag_byte, 0, 0, 0,
       name_index % 256,
       (name_index \div 256) % 256,
       (name_index \div 65536) % 256,
       (name_index \div 16777216) % 256 >>

name_index(sym) ==
    sym[5] + 256 * sym[6] + 65536 * sym[7] + 16777216 * sym[8]

\* InternedSym::repr
repr(sym) ==
    IF sym[1] = LOCAL_INDEXED_FLAG THEN "LocalIndexed"
    ELSE IF sym[1] = GLOBAL_INDEXED_FLAG THEN "GlobalIndexed"
    ELSE "Inline"

\* InternedInline::as_str
FillPositions(sym) == { i \in 1..INLINE_SIZE : sym[i] = INLINE_FILL_BYTE }

Min(S) == CHOOSE x \in S : \A y \in S : x <= y

InlineAsStr(sym) ==
    LET length == IF FillPositions(sym) = {} THEN INLINE_SIZE
                  ELSE Min(FillPositions(sym)) - 1
    IN  SubSeq(sym, 1, length)

\* impl PartialEq for InternedSym: the raw u64s are compared.
SymEq(a, b) == a = b

\* Interner::new
NewInterner ==
    [names |-> <<>>, name_to_index |-> <<>>, static_index_watermark |-> 0]

\* intern without the push of a new name: every new name gets the index of
\* the next free entry, which stays free.
intern_without_push(self, name) ==
    LET inline == try_from_inline_name(name) IN
    IF inline.some
    THEN [interner |-> self, sym |-> inline.sym]
    ELSE IF name \in DOMAIN self.name_to_index
    THEN [interner |-> self,
          sym |-> InternedIndexed(LOCAL_INDEXED_FLAG, self.name_to_index[name])]
    ELSE [interner |-> self,
          sym |-> InternedIndexed(LOCAL_INDEXED_FLAG, Len(self.names))]

\* Interner::intern: [interner, sym].
intern(self, name) ==
    LET inline == try_from_inline_name(name) IN
    IF inline.some
    THEN [interner |-> self, sym |-> inline.sym]
    ELSE IF name \in DOMAIN self.name_to_index
    THEN [interner |-> self,
          sym |-> InternedIndexed(LOCAL_INDEXED_FLAG, self.name_to_index[name])]
    ELSE LET index == Len(self.names) IN
         [interner |-> [self EXCEPT
                            !.names = Append(@, name),
                            !.name_to_index = (name :> index) @@ @],
          sym |-> InternedIndexed(LOCAL_INDEXED_FLAG, index)]

\* Interner::intern_static: [interner, sym].
intern_static(self, name) ==
    LET r == intern(self, name) IN
    IF repr(r.sym) = "LocalIndexed"
    THEN [interner |-> [r.interner EXCEPT
                            !.static_index_watermark = name_index(r.sym) + 1],
          sym |-> r.sym]
    ELSE r

\* Interner::unintern; PanicStr where the index is out of bounds. A
\* GlobalIndexed handle reads through global_names, which Interner::new
\* leaves null.
unintern(self, interned) ==
    IF repr(interned) = "LocalIndexed"
    THEN IF name_index(interned) < Len(self.names)
         THEN self.names[name_index(interned) + 1]
         ELSE PanicStr
    ELSE IF repr(interned) = "GlobalIndexed"
    THEN PanicStr
    ELSE InlineAsStr(interned)

\* clone_for_collect_garbage without the filter on name_to_index.
clone_for_collect_garbage_unfiltered(self) ==
    IF self.static_index_watermark = 0
    THEN NewInterner
    ELSE [names |-> SubSeq(self.names, 1, self.static_index_watermark),
          name_to_index |-> self.name_to_index,
          static_index_watermark |-> self.static_index_watermark]

\* Interner::clone_for_collect_garbage
clone_for_collect_garbage(self) ==
    IF self.static_index_watermark = 0
    THEN NewInterner
    ELSE [names |-> SubSeq(self.names, 1, self.static_index_watermark),
          name_to_index |->
              [n \in { m \in DOMAIN self.name_to_index :
                         self.name_to_index[m] < self.static_index_watermark }
                  |-> self.name_to_index[n]],
          static_index_watermark |-> self.static_index_watermark]


(***************************************************************************)
(* SpecIntern: an Interner driven through its public operations.           *)
(***************************************************************************)
NoCall == [op |-> "none", name |-> <<>>, sym |-> <<>>]


\* interner.intern(name)
Intern(name) ==
    LET r == intern(interner, name) IN
    /\ interner' = r.interner
    /\ last' = [op |-> "intern", name |-> name, sym |-> r.sym]
    /\ handed' = handed \cup {<<name, r.sym>>}
    /\ UNCHANGED <<statics, planVars, idVars, gcVars>>

\* interner.intern_static(name)
InternStatic(name) ==
    LET r == intern_static(interner, name) IN
    /\ interner' = r.interner
    /\ last' = [op |-> "intern_static", name |-> name, sym |-> r.sym]
    /\ handed' = handed \cup {<<name, r.sym>>}
    /\ statics' = statics \cup {<<name, r.sym>>}
    /\ UNCHANGED <<planVars, idVars, gcVars>>

\* interner = interner.clone_for_collect_garbage(): only the static handles
\* are meant to outlive it.
CloneForCollectGarbage ==
    /\ interner' = clone_for_collect_garbage(interner)
    /\ last' = [op |-> "clone", name |-> <<>>, sym |-> <<>>]
    /\ handed' = {}
    /\ UNCHANGED <<statics, planVars, idVars, gcVars>>

InternCall == \E name \in Names : Intern(name)
InternStaticCall == \E name \in Names : InternStatic(name)

(***************************************************************************)
(* compiler/codegen/alloc/plan.rs                                          *)
(***************************************************************************)
\* An op is [kind, reg, true_ops, false_ops]; only a Cond has branches.
Op(kind, reg) ==
    [kind |-> kind, reg |-> reg, true_ops |-> <<>>, false_ops |-> <<>>]

CondOp(reg, true_ops, false_ops) ==
    [kind |-> "Cond", reg |-> reg, true_ops |-> true_ops, false_ops |-> false_ops]

\* boxed::Int::size() and boxed::TopPair::size() on a 64 bit target.
IntSize == "Size16"
TopPairSize == "Size32"

\* op_alloc_info: Option<AllocInfo> as [some, output_reg, box_size].
op_alloc_info(op) ==
    IF op.kind = "AllocInt"
    THEN [some |-> TRUE, output_reg |-> op.reg, box_size |-> IntSize]
    ELSE IF op.kind = "AllocBoxedPair"
    THEN [some |-> TRUE, output_reg |-> op.reg, box_size |-> TopPairSize]
    ELSE [some |-> FALSE, output_reg |-> 0, box_size |-> "None"]

RECURSIVE op_needs_heap_checkpoint(_)

\* op_needs_heap_checkpoint with Call left out of the first match arm.
op_needs_heap_checkpoint_without_call(op) ==
    IF op.kind \in {"Ret", "RetVoid", "Unreachable"}
    THEN TRUE
    ELSE IF op.kind = "Cond"
    THEN LET branch_ops == op.true_ops \o op.false_ops IN
         \E i \in 1..Len(branch_ops) :
             \/ op_needs_heap_checkpoint(branch_ops[i])
             \/ op_alloc_info(branch_ops[i]).some
    ELSE FALSE

\* op_needs_heap_checkpoint looking at the ops of the branches only for
\* allocations, without the recursive call.
op_needs_heap_checkpoint_shallow(op) ==
    IF op.kind \in {"Ret", "RetVoid", "Unreachable", "Call"}
    THEN TRUE
    ELSE IF op.kind = "Cond"
    THEN LET branch_ops == op.true_ops \o op.false_ops IN
         \E i \in 1..Len(branch_ops) : op_alloc_info(branch_ops[i]).some
    ELSE FALSE

op_needs_heap_checkpoint(op) ==
    IF op.kind \in {"Ret", "RetVoid", "Unreachable", "Call"}
    THEN TRUE
    ELSE IF op.kind = "Cond"
    THEN LET branch_ops == op.true_ops \o op.false_ops IN
         \E i \in 1..Len(branch_ops) :
             \/ op_needs_heap_checkpoint(branch_ops[i])
             \/ op_alloc_info(branch_ops[i]).some
    ELSE FALSE

\* Captures::get: a register the analysis never saw is never captured.
captures_get(caps, reg) ==
    IF reg \in caps THEN "Always" ELSE "Never"

\* AllocAtom::with_unallocating_op
with_unallocating_op(op) ==
    [box_sources |-> <<>>, ops |-> <<op>>]

\* The locals of plan_allocs.
PlanStart == [atoms |-> <<>>, box_sources |-> <<>>, atom_ops |-> <<>>]

\* push_complete_atom without the is_empty test.
push_complete_atom_unguarded(st) ==
    [atoms |-> Append(st.atoms,
                      [box_sources |-> st.box_sources, ops |-> st.atom_ops]),
     box_sources |-> <<>>,
     atom_ops |-> <<>>]

\* push_complete_atom handing the atom a copy of box_sources and leaving
\* the map as it is.
push_complete_atom_keeping_sources(st) ==
    IF st.atom_ops # <<>>
    THEN [atoms |-> Append(st.atoms,
                           [box_sources |-> st.box_sources, ops |-> st.atom_ops]),
          box_sources |-> st.box_sources,
          atom_ops |-> <<>>]
    ELSE st

\* push_complete_atom
push_complete_atom(st) ==
    IF st.atom_ops # <<>>
    THEN [atoms |-> Append(st.atoms,
                           [box_sources |-> st.box_sources, ops |-> st.atom_ops]),
          box_sources |-> <<>>,
          atom_ops |-> <<>>]
    ELSE st

\* The loop body of plan_allocs deciding BoxSource::Heap whatever the
\* capture kind is.
plan_op_ignoring_captures(caps, st, op) ==
    IF op_needs_heap_checkpoint(op)
    THEN LET flushed == push_complete_atom(st) IN
         [flushed EXCEPT !.atoms = Append(@, with_unallocating_op(op))]
    ELSE LET info == op_alloc_info(op)
             sources ==
                 IF info.some
                 THEN (info.output_reg :> [source |-> "Heap", size |-> info.box_size])
                          @@ st.box_sources
                 ELSE st.box_sources
         IN [st EXCEPT !.box_sources = sources, !.atom_ops = Append(@, op)]

\* The loop body of plan_allocs closing the atom after every op.
plan_op_closing_every_atom(caps, st, op) ==
    IF op_needs_heap_checkpoint(op)
    THEN LET flushed == push_complete_atom(st) IN
         [flushed EXCEPT !.atoms = Append(@, with_unallocating_op(op))]
    ELSE LET info == op_alloc_info(op)
             sources ==
                 IF info.some
                 THEN IF captures_get(caps, info.output_reg) = "Never"
                      THEN (info.output_reg :> [source |-> "Stack", size |-> "None"])
                               @@ st.box_sources
                      ELSE (info.output_reg :> [source |-> "Heap", size |-> info.box_size])
                               @@ st.box_sources
                 ELSE st.box_sources
         IN push_complete_atom([st EXCEPT !.box_sources = sources,
                                          !.atom_ops = Append(@, op)])

\* One iteration of the for loop of plan_allocs.
plan_op(caps, st, op) ==
    IF op_needs_heap_checkpoint(op)
    THEN LET flushed == push_complete_atom(st) IN
         [flushed EXCEPT !.atoms = Append(@, with_unallocating_op(op))]
    ELSE LET info == op_alloc_info(op)
             sources ==
                 IF info.some
                 THEN IF captures_get(caps, info.output_reg) = "Never"
                      THEN (info.output_reg :> [source |-> "Stack", size |-> "None"])
                               @@ st.box_sources
                      ELSE (info.output_reg :> [source |-> "Heap", size |-> info.box_size])
                               @@ st.box_sources
                 ELSE st.box_sources
         IN [st EXCEPT !.box_sources = sources, !.atom_ops = Append(@, op)]

RECURSIVE plan_loop(_, _, _, _)
plan_loop(caps, input, i, st) ==
    IF i > Len(input) THEN st
    ELSE plan_loop(caps, input, i + 1, plan_op(caps, st, input[i]))

\* plan_allocs without the push_complete_atom after the loop.
plan_allocs_without_last_push(caps, input) ==
    plan_loop(caps, input, 1, PlanStart).atoms

\* plan_allocs
plan_allocs(caps, input) ==
    push_complete_atom(plan_loop(caps, input, 1, PlanStart)).atoms

(***************************************************************************)
(* SpecPlan: plan_allocs applied to every op sequence of at most MaxOps    *)
(* ops. The op at position i writes register i; the ops of its branches    *)
(* write registers derived from i.                                         *)
(***************************************************************************)
Shapes ==
    { "AllocInt", "AllocBoxedPair", "ConstTrue", "Ret", "RetVoid", "Unreachable",
      "Call", "CondPlain", "CondAlloc", "CondRet", "CondNestedAlloc",
      "CondNestedPlain" }

MkOp(shape, i) ==
    CASE shape = "CondPlain" ->
            CondOp(i, <<Op("ConstTrue", 10 * i + 1)>>, <<Op("ConstTrue", 10 * i + 2)>>)
      [] shape = "CondAlloc" ->
            CondOp(i, <<Op("ConstTrue", 10 * i + 1)>>, <<Op("AllocInt", 10 * i + 2)>>)
      [] shape = "CondRet" ->
            CondOp(i, <<Op("RetVoid", 10 * i + 1)>>, <<Op("ConstTrue", 10 * i + 2)>>)
      [] shape = "CondNestedAlloc" ->
            CondOp(i,
                   <<CondOp(10 * i + 1, <<Op("AllocBoxedPair", 100 * i + 1)>>, <<>>)>>,
                   <<Op("ConstTrue", 10 * i + 2)>>)
      [] shape = "CondNestedPlain" ->
            CondOp(i,
                   <<CondOp(10 * i + 1, <<Op("ConstTrue", 100 * i + 1)>>, <<>>)>>,
                   <<Op("ConstTrue", 10 * i + 2)>>)
      [] OTHER -> Op(shape, i)

OpSeqs ==
    UNION { { [i \in 1..n |-> MkOp(shapes[i], i)] : shapes \in [1..n -> Shapes] }
            : n \in 0..MaxOps }


\* atoms = plan_allocs(&captures, &ops)
PlanAllocs ==
    /\ ~planned
    /\ atoms' = plan_allocs(captures, ops)
    /\ planned' = TRUE
    /\ UNCHANGED <<ops, captures, internVars, gcVars, idVars>>


(***************************************************************************)
(* runtime/boxed: the boxes the collector walks.                           *)
(*                                                                         *)
(* A reference Gc<T> is <<region, index>>: the index-th box of the old     *)
(* heap, of the new heap or of the stack, or the Nil singleton. A heap is  *)
(* [cells, len, interner]: its boxes in allocation order, the number of    *)
(* 16 byte cells they take and its Interner.                               *)
(***************************************************************************)
MAX_16BYTE_INLINE_LENGTH == 1
MAX_INLINE_LENGTH == 3

NullRef == <<"null", 0>>
NilRef == <<"const", 1>>

BlankBox ==
    [type_tag |-> "None", alloc_type |-> "None", value |-> 0, interned |-> <<>>,
     list_length |-> 0, head |-> NullRef, rest |-> NullRef,
     inline_length |-> 0, values |-> <<>>, new_location |-> NullRef]

\* NIL_INSTANCE
NIL_INSTANCE ==
    [BlankBox EXCEPT !.type_tag = "Nil", !.alloc_type = "Const", !.list_length = 0]

\* A constant pair as gen_boxed_pair emits it: the one element list (()).
ConstPairRef == <<"const", 2>>

CONST_PAIR ==
    [BlankBox EXCEPT !.type_tag = "Pair", !.alloc_type = "Const",
                     !.list_length = 1, !.head = NilRef, !.rest = NilRef]

\* What a reference into a dropped heap finds.
DanglingBox == [BlankBox EXCEPT !.type_tag = "Dangling", !.alloc_type = "Dangling"]

\* Heap::new
NewHeap == [cells |-> <<>>, len |-> 0, interner |-> NewInterner]

\* The memory collect_roots works on.
Mem == [old |-> old_heap, new |-> new_heap, stack |-> stack, roots |-> roots]

Region(m, ref) ==
    IF ref[1] = "old" THEN m.old.cells
    ELSE IF ref[1] = "new" THEN m.new.cells
    ELSE IF ref[1] = "stack" THEN m.stack
    ELSE <<NIL_INSTANCE, CONST_PAIR>>

\* Dereferencing a Gc<T>.
Deref(m, ref) ==
    IF ref[2] \in 1..Len(Region(m, ref)) THEN Region(m, ref)[ref[2]] ELSE DanglingBox

\* Writing a box in place.
SetBox(m, ref, box) ==
    IF ref[1] = "old" THEN [m EXCEPT !.old.cells[ref[2]] = box]
    ELSE IF ref[1] = "new" THEN [m EXCEPT !.new.cells[ref[2]] = box]
    ELSE IF ref[1] = "stack" THEN [m EXCEPT !.stack[ref[2]] = box]
    ELSE m

\* BoxSize::cell_count
cell_count(size) == IF size = "Size16" THEN 1 ELSE 2

\* Heap::alloc_cells and the write of the box: [heap, ref].
place_box(heap, region, box, count) ==
    [heap |-> [heap EXCEPT !.cells = Append(@, box), !.len = @ + count],
     ref  |-> <<region, Len(heap.cells) + 1>>]

\* Int::new
IntBox(value, alloc_type) ==
    [BlankBox EXCEPT !.type_tag = "Int", !.alloc_type = alloc_type, !.value = value]

\* Sym::new after the name is interned
SymBox(interned, alloc_type) ==
    [BlankBox EXCEPT !.type_tag = "Sym", !.alloc_type = alloc_type,
                     !.interned = interned]

\* List::len / Pair::len
ListLen(m, list_ref) == Deref(m, list_ref).list_length

\* Pair::construct
PairBox(m, head, rest, alloc_type) ==
    [BlankBox EXCEPT !.type_tag = "Pair", !.alloc_type = alloc_type,
                     !.head = head, !.rest = rest,
                     !.list_length = ListLen(m, rest) + 1]

\* Vector::new: the header and the inline or large representation. A large
\* vector's values live in its Vec, which the box's bytes point to.
VectorAllocType(values) ==
    IF Len(values) <= MAX_16BYTE_INLINE_LENGTH THEN "Heap16" ELSE "Heap32"

VectorBox(values, alloc_type) ==
    [BlankBox EXCEPT !.type_tag = "Vector", !.alloc_type = alloc_type,
                     !.inline_length =
                         IF Len(values) <= MAX_INLINE_LENGTH
                         THEN Len(values) ELSE MAX_INLINE_LENGTH + 1,
                     !.values = values]

\* Vector::is_inline, Vector::len, Vector::values_mut
is_inline(box) == box.inline_length <= MAX_INLINE_LENGTH

VectorLen(box) == IF is_inline(box) THEN box.inline_length ELSE Len(box.values)

\* The size a heap box was allocated with, from its header.
SizeOf(alloc_type) ==
    IF alloc_type \in {"Heap16", "HeapForward16"} THEN "Size16" ELSE "Size32"

(***************************************************************************)
(* SpecGC, the mutator: boxes are built with the constructors above, on    *)
(* the heap or on the stack, and then rooted.                              *)
(***************************************************************************)
NoSnap == [old |-> NewHeap, stack |-> <<>>, roots |-> <<>>]

SymNames == {<<97>>} \cup LongNames

NumBoxes == Len(old_heap.cells) + Len(stack)

\* The references the mutator fills vectors with: every box it allocated,
\* in allocation order, then Nil.
RefSeq ==
    [i \in 1..Len(old_heap.cells) |-> <<"old", i>>]
        \o [i \in 1..Len(stack) |-> <<"stack", i>>]
        \o <<NilRef>>

Refs == { RefSeq[i] : i \in 1..Len(RefSeq) }

\* What a root can refer to: those and the constant pair.
RootRefs == Refs \cup {ConstPairRef}

ListRefs == { r \in Refs : Deref(Mem, r).type_tag \in {"Pair", "Nil"} }

CanAlloc == phase = "mutate" /\ roots = <<>> /\ NumBoxes < MaxBoxes

\* Places a box on the heap (heap_alloc_type) or on the stack.
Place(box, heap_alloc_type, interner_after, on_stack) ==
    IF on_stack
    THEN /\ stack' = Append(stack, [box EXCEPT !.alloc_type = "Stack"])
         /\ old_heap' = [old_heap EXCEPT !.interner = interner_after]
    ELSE /\ old_heap' =
             [place_box(old_heap, "old", [box EXCEPT !.alloc_type = heap_alloc_type],
                        cell_count(SizeOf(heap_alloc_type))).heap
                 EXCEPT !.interner = interner_after]
         /\ UNCHANGED stack

AllocFrame ==
    UNCHANGED <<new_heap, roots, work, phase, snap, moves, reinterned, internVars,
                planVars, idVars>>

NewInt ==
    \E on_stack \in BOOLEAN :
        /\ CanAlloc
        /\ Place(IntBox(NumBoxes + 1, "Heap16"), "Heap16", old_heap.interner, on_stack)
        /\ AllocFrame

NewSym ==
    \E name \in SymNames, on_stack \in BOOLEAN :
        LET r == intern(old_heap.interner, name) IN
        /\ CanAlloc
        /\ Place(SymBox(r.sym, "Heap16"), "Heap16", r.interner, on_stack)
        /\ AllocFrame

NewPair ==
    \E head \in Refs, rest \in ListRefs, on_stack \in BOOLEAN :
        /\ CanAlloc
        /\ Place(PairBox(Mem, head, rest, "Heap32"), "Heap32", old_heap.interner,
                 on_stack)
        /\ AllocFrame

\* The lengths cover the empty, the one cell inline, the two cell inline and
\* the large vector; the elements are the references held so far, in turn.
VectorLens == {0, MAX_16BYTE_INLINE_LENGTH, MAX_INLINE_LENGTH, MAX_INLINE_LENGTH + 1}

NewVector ==
    \E n \in VectorLens, on_stack \in BOOLEAN :
        LET values == [i \in 1..n |-> RefSeq[((i - 1) % Len(RefSeq)) + 1]] IN
        /\ CanAlloc
        /\ Place(VectorBox(values, "Heap16"), VectorAllocType(values),
                 old_heap.interner, on_stack)
        /\ AllocFrame

\* heap.interner_mut().intern_static(name): a symbol the generated code
\* refers to without a Sym box.
InternStaticOnHeap ==
    \E name \in SymNames :
        LET r == intern_static(old_heap.interner, name) IN
        /\ phase = "mutate"
        /\ roots = <<>>
        /\ Cardinality(statics) < MaxStatics
        /\ old_heap' = [old_heap EXCEPT !.interner = r.interner]
        /\ statics' = statics \cup {<<name, r.sym>>}
        /\ UNCHANGED <<new_heap, stack, roots, work, phase, snap, moves, reinterned>>
        /\ UNCHANGED <<interner, last, handed, planVars, idVars>>

AddRoot ==
    \E ref \in RootRefs :
        /\ phase = "mutate"
        /\ Len(roots) < MaxRoots
        /\ roots' = Append(roots, ref)
        /\ UNCHANGED <<old_heap, new_heap, stack, work, phase, snap, moves, reinterned>>
        /\ UNCHANGED <<internVars, planVars, idVars>>


(***************************************************************************)
(* runtime/boxed/heap/collect.rs                                           *)
(*                                                                         *)
(* A slot is the place of a reference (the &mut Gc<Any> visit_box is       *)
(* handed): a root, the head or rest of a pair, an element of a vector.    *)
(* work holds the slots whose visit is pending, in the order the recursion *)
(* of visit_box reaches them; depth is the recursion depth of the visit.   *)
(***************************************************************************)
RootSlot(i) == [kind |-> "root", at |-> NullRef, idx |-> i, depth |-> 1]
HeadSlot(ref, d) == [kind |-> "head", at |-> ref, idx |-> 0, depth |-> d]
RestSlot(ref, d) == [kind |-> "rest", at |-> ref, idx |-> 0, depth |-> d]
ElemSlot(ref, i, d) == [kind |-> "elem", at |-> ref, idx |-> i, depth |-> d]

\* *box_ref
ReadSlot(m, slot) ==
    IF slot.kind = "root" THEN m.roots[slot.idx]
    ELSE IF slot.kind = "head" THEN Deref(m, slot.at).head
    ELSE IF slot.kind = "rest" THEN Deref(m, slot.at).rest
    ELSE Deref(m, slot.at).values[slot.idx]

\* *box_ref = ref
WriteSlot(m, slot, ref) ==
    IF slot.kind = "root" THEN [m EXCEPT !.roots[slot.idx] = ref]
    ELSE IF slot.kind = "head"
    THEN SetBox(m, slot.at, [Deref(m, slot.at) EXCEPT !.head = ref])
    ELSE IF slot.kind = "rest"
    THEN SetBox(m, slot.at, [Deref(m, slot.at) EXCEPT !.rest = ref])
    ELSE SetBox(m, slot.at, [Deref(m, slot.at) EXCEPT !.values[slot.idx] = ref])

\* ForwardingCell { header: { type_tag, alloc_type }, new_location }: it
\* overwrites the first 16 bytes of the box, which held the header and the
\* box's first field.
ForwardingCell(box, forward_alloc_type, dest) ==
    [BlankBox EXCEPT !.type_tag = box.type_tag,
                     !.alloc_type = forward_alloc_type,
                     !.new_location = dest,
                     !.head = box.head,
                     !.rest = box.rest]

\* move_box_to_new_heap without the write of the forwarding cell.
move_box_to_new_heap_without_forwarding(m, slot, size) ==
    LET box_ref == ReadSlot(m, slot)
        box == Deref(m, box_ref)
        placed == place_box(m.new, "new", box, cell_count(size))
        copied == [m EXCEPT !.new = placed.heap]
    IN  WriteSlot(copied, slot, placed.ref)

\* move_box_to_new_heap: the box is copied to freshly allocated cells of the
\* new heap, its old place becomes a forwarding cell and box_ref is updated.
move_box_to_new_heap(m, slot, size) ==
    LET box_ref == ReadSlot(m, slot)
        box == Deref(m, box_ref)
        placed == place_box(m.new, "new", box, cell_count(size))
        forward_alloc_type ==
            IF size = "Size16" THEN "HeapForward16" ELSE "HeapForward32"
        copied == [m EXCEPT !.new = placed.heap]
        forwarded == SetBox(copied, box_ref,
                            ForwardingCell(box, forward_alloc_type, placed.ref))
    IN  WriteSlot(forwarded, slot, placed.ref)

\* The reinterning of a Sym box: its name is read from the old heap's
\* interner and interned on the new heap's.
sym_name(m, box_ref) == unintern(m.old.interner, Deref(m, box_ref).interned)

reintern_sym(m, box_ref) ==
    LET r == intern(m.new.interner, sym_name(m, box_ref)) IN
    SetBox([m EXCEPT !.new.interner = r.interner], box_ref,
           [Deref(m, box_ref) EXCEPT !.interned = r.sym])

\* Vector::values_mut, as the slots of the elements
values_mut(m, box_ref, d) ==
    [i \in 1..VectorLen(Deref(m, box_ref)) |-> ElemSlot(box_ref, i, d)]

\* The second match of visit_box, on the type tag of the box box_ref now
\* points to: the memory after it and the visits it starts.
visit_children(m, slot) ==
    LET box_ref == ReadSlot(m, slot)
        type_tag == Deref(m, box_ref).type_tag
    IN  IF type_tag = "Sym"
        THEN [mem |-> reintern_sym(m, box_ref), visits |-> <<>>,
              panics |-> sym_name(m, box_ref) = PanicStr,
              reinterns |-> <<[box |-> box_ref,
                               handle |-> Deref(m, box_ref).interned]>>]
        ELSE IF type_tag = "Pair"
        THEN [mem |-> m,
              visits |-> <<HeadSlot(box_ref, slot.depth + 1),
                           RestSlot(box_ref, slot.depth)>>,
              panics |-> FALSE, reinterns |-> <<>>]
        ELSE IF type_tag = "Vector"
        THEN [mem |-> m, visits |-> values_mut(m, box_ref, slot.depth + 1),
              panics |-> FALSE, reinterns |-> <<>>]
        ELSE [mem |-> m, visits |-> <<>>, panics |-> FALSE, reinterns |-> <<>>]

\* The state after one iteration of the loop of visit_box.
Commit(r, rest_of_work) ==
    IF r.panics
    THEN /\ phase' = "panic"
         /\ UNCHANGED <<old_heap, new_heap, stack, roots, work, reinterned>>
    ELSE /\ old_heap' = r.mem.old
         /\ new_heap' = r.mem.new
         /\ stack' = r.mem.stack
         /\ roots' = r.mem.roots
         /\ work' = r.visits \o rest_of_work
         /\ reinterned' = reinterned \o r.reinterns
         /\ UNCHANGED phase

Visiting == phase = "collect" /\ work # <<>>

VisitedBox == Deref(Mem, ReadSlot(Mem, Head(work)))

\* collect_roots is called: the new heap is created and the roots are
\* visited in order.
CollectRoots ==
    /\ phase = "mutate"
    /\ phase' = "collect"
    /\ new_heap' = NewHeap
    /\ work' = [i \in 1..Len(roots) |-> RootSlot(i)]
    /\ snap' = [old |-> old_heap, stack |-> stack, roots |-> roots]
    /\ moves' = <<>>
    /\ reinterned' = <<>>
    /\ UNCHANGED <<old_heap, stack, roots, internVars, planVars, idVars>>

\* visit_box going on to the second match for a Const box.
VisitConstAndChildren ==
    /\ Visiting
    /\ VisitedBox.alloc_type = "Const"
    /\ Commit(visit_children(Mem, Head(work)), Tail(work))
    /\ UNCHANGED <<snap, moves, internVars, planVars, idVars>>

\* visit_box with `continue` in place of `return` in the Const arm.
VisitConstWithoutReturn ==
    /\ Visiting
    /\ VisitedBox.alloc_type = "Const"
    /\ UNCHANGED vars

\* AllocType::Const => return
VisitConst ==
    /\ Visiting
    /\ VisitedBox.alloc_type = "Const"
    /\ work' = Tail(work)
    /\ UNCHANGED <<old_heap, new_heap, stack, roots, phase, snap, moves, reinterned>>
    /\ UNCHANGED <<internVars, planVars, idVars>>

\* AllocType::HeapForward16 | AllocType::HeapForward32
VisitForwarded ==
    /\ Visiting
    /\ VisitedBox.alloc_type \in {"HeapForward16", "HeapForward32"}
    /\ Commit([mem |-> WriteSlot(Mem, Head(work), VisitedBox.new_location),
               visits |-> <<>>, panics |-> FALSE, reinterns |-> <<>>],
              Tail(work))
    /\ UNCHANGED <<snap, moves, internVars, planVars, idVars>>

\* The origin of a box of the new heap: the box it is a copy of.
Origin(ref) ==
    IF \E i \in 1..Len(moves) : moves[i].dest = ref
    THEN moves[CHOOSE i \in 1..Len(moves) : moves[i].dest = ref].origin
    ELSE ref

\* AllocType::Heap16 | AllocType::Heap32
VisitHeap ==
    /\ Visiting
    /\ VisitedBox.alloc_type \in {"Heap16", "Heap32"}
    /\ \E moved \in {move_box_to_new_heap(Mem, Head(work),
                                           SizeOf(VisitedBox.alloc_type))} :
       \E r \in {visit_children(moved, Head(work))} :
           LET source == ReadSlot(Mem, Head(work)) IN
           /\ Commit(r, Tail(work))
           /\ moves' = Append(moves, [source |-> source,
                                      dest |-> ReadSlot(moved, Head(work)),
                                      origin |-> Origin(source)])
    /\ UNCHANGED <<snap, internVars, planVars, idVars>>

\* AllocType::Stack
VisitStack ==
    /\ Visiting
    /\ VisitedBox.alloc_type = "Stack"
    /\ Commit(visit_children(Mem, Head(work)), Tail(work))
    /\ UNCHANGED <<snap, moves, internVars, planVars, idVars>>

\* Every root is visited: the old heap is dropped and the new one returned.
Finish ==
    /\ phase = "collect"
    /\ work = <<>>
    /\ phase' = "done"
    /\ old_heap' = [cells |-> <<>>, len |-> 0, interner |-> old_heap.interner]
    /\ UNCHANGED <<new_heap, stack, roots, work, snap, moves, reinterned>>
    /\ UNCHANGED <<internVars, planVars, idVars>>

(***************************************************************************)
(* compiler/id_type.rs, new_global_id_type                                 *)
(*                                                                         *)
(* Threads share the static NEXT_VALUE. A call is [thread, kind, length,   *)
(* start_raw, end_raw, ids, done]: ids are the IDs it has produced so far, *)
(* in order. An iterator is lazy: the thread that holds it draws its IDs   *)
(* one by one, interleaved with the calls of the other threads.            *)
(***************************************************************************)
Threads == 1..NumThreads

\* AtomicUsize::fetch_add(val, Ordering::Relaxed): one atomic
\* read-modify-write, [old, new].
fetch_add(value, val) == [old |-> value, new |-> value + val]

\* alloc_iter adding 1 to the counter whatever the length.
alloc_iter_adding_one(value, length) ==
    LET start_raw == fetch_add(value, 1).old IN
    [start_raw |-> start_raw, end_raw |-> start_raw + length,
     counter |-> fetch_add(value, 1).new]

\* alloc_iter: the range start_raw..end_raw and the counter afterwards.
alloc_iter(value, length) ==
    LET start_raw == fetch_add(value, length).old IN
    [start_raw |-> start_raw, end_raw |-> start_raw + length,
     counter |-> fetch_add(value, length).new]

\* $id_name::alloc()
Alloc ==
    \E t \in Threads :
        LET raw_id == fetch_add(NEXT_VALUE, 1).old IN
        /\ Len(calls) < MaxCalls
        /\ NEXT_VALUE' = fetch_add(NEXT_VALUE, 1).new
        /\ calls' = Append(calls, [thread |-> t, kind |-> "alloc", length |-> 1,
                                   start_raw |-> raw_id, end_raw |-> raw_id + 1,
                                   ids |-> <<raw_id>>, done |-> TRUE])
        /\ UNCHANGED <<iter, internVars, planVars, gcVars>>

\* $id_name::alloc_iter(length): the counter is advanced at the call; the
\* IDs are produced as the iterator is drawn.
AllocIter ==
    \E t \in Threads, length \in 0..MaxIterLen :
        LET r == alloc_iter(NEXT_VALUE, length) IN
        /\ Len(calls) < MaxCalls
        /\ iter[t] = 0
        /\ NEXT_VALUE' = r.counter
        /\ calls' = Append(calls, [thread |-> t, kind |-> "alloc_iter",
                                   length |-> length,
                                   start_raw |-> r.start_raw, end_raw |-> r.end_raw,
                                   ids |-> <<>>, done |-> FALSE])
        /\ iter' = [iter EXCEPT ![t] = Len(calls) + 1]
        /\ UNCHANGED <<internVars, planVars, gcVars>>

\* Iterator::next on (start_raw..end_raw).map(Self::new): the next ID, or
\* None at the end of the range.
IterNext ==
    \E t \in Threads :
        /\ iter[t] # 0
        /\ LET c == calls[iter[t]]
               raw_id == c.start_raw + Len(c.ids)
           IN  IF raw_id < c.end_raw
               THEN /\ calls' = [calls EXCEPT ![iter[t]].ids = Append(@, raw_id)]
                    /\ UNCHANGED iter
               ELSE /\ calls' = [calls EXCEPT ![iter[t]].done = TRUE]
                    /\ iter' = [iter EXCEPT ![t] = 0]
        /\ UNCHANGED <<NEXT_VALUE, internVars, planVars, gcVars>>

(***************************************************************************)
(* The specifications.                                                     *)
(***************************************************************************)
InternInit ==
    /\ interner = NewInterner
    /\ last = NoCall
    /\ handed = {}
    /\ statics = {}
    /\ ops = <<>>
    /\ captures = {}
    /\ atoms = <<>>
    /\ planned = FALSE
    /\ old_heap = NewHeap
    /\ new_heap = NewHeap
    /\ stack = <<>>
    /\ roots = <<>>
    /\ work = <<>>
    /\ phase = "mutate"
    /\ snap = NoSnap
    /\ moves = <<>>
    /\ reinterned = <<>>
    /\ NEXT_VALUE = 1
    /\ calls = <<>>
    /\ iter = [t \in Threads |-> 0]

InternNext ==
    \/ InternCall
    \/ InternStaticCall
    \/ CloneForCollectGarbage

PlanInit ==
    /\ ops \in OpSeqs
    /\ captures \in SUBSET (1..Len(ops))
    /\ atoms = <<>>
    /\ planned = FALSE
    /\ interner = NewInterner
    /\ last = NoCall
    /\ handed = {}
    /\ statics = {}
    /\ old_heap = NewHeap
    /\ new_heap = NewHeap
    /\ stack = <<>>
    /\ roots = <<>>
    /\ work = <<>>
    /\ phase = "mutate"
    /\ snap = NoSnap
    /\ moves = <<>>
    /\ reinterned = <<>>
    /\ NEXT_VALUE = 1
    /\ calls = <<>>
    /\ iter = [t \in Threads |-> 0]

PlanNext == PlanAllocs

GcInit ==
    /\ old_heap = NewHeap
    /\ new_heap = NewHeap
    /\ stack = <<>>
    /\ roots = <<>>
    /\ work = <<>>
    /\ phase = "mutate"
    /\ snap = NoSnap
    /\ moves = <<>>
    /\ reinterned = <<>>
    /\ interner = NewInterner
    /\ last = NoCall
    /\ handed = {}
    /\ statics = {}
    /\ ops = <<>>
    /\ captures = {}
    /\ atoms = <<>>
    /\ planned = FALSE
    /\ NEXT_VALUE = 1
    /\ calls = <<>>
    /\ iter = [t \in Threads |-> 0]

GcNext ==
    \/ NewInt
    \/ NewSym
    \/ NewPair
    \/ NewVector
    \/ AddRoot
    \/ CollectRoots
    \/ VisitConst
    \/ VisitForwarded
    \/ VisitHeap
    \/ VisitStack
    \/ Finish

\* The collector on a heap of Sym boxes whose interner also holds static
\* symbols.
GcStaticNext ==
    \/ InternStaticOnHeap
    \/ NewSym
    \/ AddRoot
    \/ CollectRoots
    \/ VisitConst
    \/ VisitForwarded
    \/ VisitHeap
    \/ VisitStack
    \/ Finish

\* The ID allocator starts with the counter at 1 and no call made.
IdInit ==
    /\ NEXT_VALUE = 1
    /\ calls = <<>>
    /\ iter = [t \in Threads |-> 0]
    /\ interner = NewInterner
    /\ last = NoCall
    /\ handed = {}
    /\ statics = {}
    /\ ops = <<>>
    /\ captures = {}
    /\ atoms = <<>>
    /\ planned = FALSE
    /\ old_heap = NewHeap
    /\ new_heap = NewHeap
    /\ stack = <<>>
    /\ roots = <<>>
    /\ work = <<>>
    /\ phase = "mutate"
    /\ snap = NoSnap
    /\ moves = <<>>
    /\ reinterned = <<>>

IdNext ==
    \/ Alloc
    \/ AllocIter
    \/ IterNext

SpecIntern == InternInit /\ [][InternNext]_vars
SpecPlan == PlanInit /\ [][PlanNext]_vars
SpecGC == GcInit /\ [][GcNext]_vars
SpecGCStatic == GcInit /\ [][GcStaticNext]_vars
SpecIds == IdInit /\ [][IdNext]_vars

\* collect_roots is one sequential call: once it has started, the thread
\* running it keeps executing visit_box until the loop over the roots ends.
\* The mutator's steps carry no fairness.
CollectorStep ==
    \/ VisitConst
    \/ VisitForwarded
    \/ VisitHeap
    \/ VisitStack
    \/ Finish

\* The collector on heaps of integers and lists, on the heap and on the
\* stack.
GcFairNext ==
    \/ NewInt
    \/ NewPair
    \/ AddRoot
    \/ CollectRoots
    \/ VisitConst
    \/ VisitForwarded
    \/ VisitHeap
    \/ VisitStack
    \/ Finish

SpecGCFair == GcInit /\ [][GcFairNext]_vars /\ WF_vars(CollectorStep)


(***************************************************************************)
(* The interner's claims, checked under SpecIntern.                        *)
(***************************************************************************)

\* C5: for every valid UTF-8 name S (empty, at most 8 bytes, longer),
\* unintern(&intern(S)) returns exactly S.
C5_UninternReturnsTheName ==
    last.op \in {"intern", "intern_static"} =>
        unintern(interner, last.sym) = last.name

\* C6: every indexed InternedSym that intern_static returned still
\* uninterns to its name, at its index, on the Interner that
\* clone_for_collect_garbage returns.
C6_StaticsSurviveTheClone ==
    last.op = "clone" =>
        \A e \in statics :
            repr(e[2]) = "LocalIndexed" => unintern(interner, e[2]) = e[1]

\* C8: two names interned by the same Interner with no collection in
\* between get equal handles if and only if they are the same name.
C8_HandlesEqualIffNamesEqual ==
    \A a \in handed : \A b \in handed : SymEq(a[2], b[2]) <=> a[1] = b[1]

\* C8's case: an inline handle, two distinct indexed handles, and a name
\* interned again after the others.
C8_Witness ==
    /\ \E a \in handed : repr(a[2]) = "Inline"
    /\ \E b \in handed : \E c \in handed :
           /\ repr(b[2]) = "LocalIndexed"
           /\ repr(c[2]) = "LocalIndexed"
           /\ b[1] # c[1]
    /\ last.op = "intern"
    /\ repr(last.sym) = "LocalIndexed"
    /\ name_index(last.sym) = 0
    /\ Len(interner.names) = NumLongNames

\* C15: the Interner clone_for_collect_garbage returns holds exactly the
\* entries whose index is below static_index_watermark, at their indices, in
\* names and in name_to_index, which have the same size; it is empty when
\* the watermark is 0.
C15_CloneKeepsEntriesBelowWatermark ==
    [][last'.op = "clone" =>
          LET watermark == interner.static_index_watermark
              kept == { n \in DOMAIN interner.name_to_index :
                          interner.name_to_index[n] < watermark }
          IN /\ interner'.names = SubSeq(interner.names, 1, watermark)
             /\ DOMAIN interner'.name_to_index = kept
             /\ \A n \in kept :
                    /\ interner'.name_to_index[n] = interner.name_to_index[n]
                    /\ interner'.names[interner.name_to_index[n] + 1] = n
             /\ Cardinality(DOMAIN interner'.name_to_index) = Len(interner'.names)
             /\ watermark = 0 => interner'.names = <<>>]_vars

\* C15's case: a clone that kept a static entry and, below it, an entry
\* that was never passed to intern_static.
C15_Witness ==
    /\ last.op = "clone"
    /\ Len(interner.names) = 2
    /\ interner.static_index_watermark = 2
    /\ \E e \in statics : e[1] = interner.names[2]
    /\ \A e \in statics : e[1] # interner.names[1]

Max(S) == CHOOSE x \in S : \A y \in S : y <= x

\* The indices of the indexed names passed to intern_static so far.
StaticIndices ==
    { name_index(e[2]) : e \in { x \in statics : repr(x[2]) = "LocalIndexed" } }

\* C16: after intern and intern_static calls on an Interner,
\* static_index_watermark is one more than the highest index of an indexed
\* name passed to intern_static, 0 if there is none. (statics \subseteq
\* handed: no clone_for_collect_garbage since the first intern_static.)
C16_WatermarkIsHighestStaticPlusOne ==
    statics \subseteq handed =>
        interner.static_index_watermark =
            IF StaticIndices = {} THEN 0 ELSE Max(StaticIndices) + 1

\* The call a step makes interns a name longer than INLINE_SIZE that the
\* Interner holds.
ReinternsHeldName ==
    /\ last'.op \in {"intern", "intern_static"}
    /\ Len(last'.name) > INLINE_SIZE
    /\ last'.name \in DOMAIN interner.name_to_index

\* C23: interning a name longer than 8 bytes that the Interner holds,
\* through intern or intern_static, returns the handle the name got before
\* and adds nothing to names or name_to_index; intern_static on it only
\* promotes the entry to static: the entry is below the watermark
\* afterwards and so is every entry that was below it before.
C23_ReinterningHeldNameAddsNothing ==
    [][/\ \A n \in DOMAIN interner.name_to_index \cap DOMAIN interner'.name_to_index :
              interner'.name_to_index[n] = interner.name_to_index[n]
       /\ ReinternsHeldName =>
              LET index == interner.name_to_index[last'.name] IN
              /\ last'.sym = InternedIndexed(LOCAL_INDEXED_FLAG, index)
              /\ \A e \in handed : e[1] = last'.name => SymEq(e[2], last'.sym)
              /\ interner'.names = interner.names
              /\ interner'.name_to_index = interner.name_to_index
              /\ last'.op = "intern" =>
                     interner'.static_index_watermark = interner.static_index_watermark
              /\ last'.op = "intern_static" =>
                     /\ index < interner'.static_index_watermark
                     /\ interner'.static_index_watermark
                            >= interner.static_index_watermark]_vars

\* C24: interning a name of 8 bytes or less, through intern or
\* intern_static, leaves names, name_to_index and static_index_watermark as
\* they were; the handle is the inline encoding of the name, and every
\* Interner, this one or a new one, uninterns it to the name.
C24_InlineNameLeavesInternerAlone ==
    [][(last'.op \in {"intern", "intern_static"} /\ Len(last'.name) <= INLINE_SIZE) =>
          /\ interner' = interner
          /\ repr(last'.sym) = "Inline"
          /\ last'.sym = try_from_inline_name(last'.name).sym
          /\ unintern(interner', last'.sym) = last'.name
          /\ unintern(NewInterner, last'.sym) = last'.name]_vars

\* C28: after any sequence of intern, intern_static and
\* clone_for_collect_garbage calls names and name_to_index have the same
\* number of entries, name_to_index maps names[i] to i, no name occurs
\* twice in names and static_index_watermark is at most names.len().
\* (names[i] of the Vec is names[i + 1] of the sequence.)
C28_InternerConsistent ==
    /\ Cardinality(DOMAIN interner.name_to_index) = Len(interner.names)
    /\ \A i \in 1..Len(interner.names) :
           /\ interner.names[i] \in DOMAIN interner.name_to_index
           /\ interner.name_to_index[interner.names[i]] = i - 1
    /\ \A i \in 1..Len(interner.names) : \A j \in 1..Len(interner.names) :
           interner.names[i] = interner.names[j] => i = j
    /\ interner.static_index_watermark <= Len(interner.names)

\* C28's case: an Interner that was cloned with one static entry kept and
\* a later entry dropped, and then interned the dropped name again.
C28_Witness ==
    /\ last.op = "intern"
    /\ interner.static_index_watermark = 1
    /\ interner.names = <<LongName(2), LongName(1)>>
    /\ <<LongName(2), InternedIndexed(LOCAL_INDEXED_FLAG, 0)>> \in statics
    /\ handed = {<<LongName(1), InternedIndexed(LOCAL_INDEXED_FLAG, 1)>>}

(***************************************************************************)
(* The planner's claims, checked under SpecPlan.                           *)
(***************************************************************************)
RECURSIVE ConcatAtomOps(_)
ConcatAtomOps(as) ==
    IF as = <<>> THEN <<>> ELSE Head(as).ops \o ConcatAtomOps(Tail(as))

BoundaryKinds == {"Ret", "RetVoid", "Unreachable", "Call"}

\* C9: the ops lists of the atoms plan_allocs returns, concatenated in
\* order, are exactly the input sequence.
C9_AtomsPartitionTheInput ==
    planned => ConcatAtomOps(atoms) = ops

\* C9's case: an input that is cut into several atoms, with ops after the
\* last boundary.
C9_Witness ==
    /\ planned
    /\ Len(ops) = MaxOps
    /\ Len(atoms) = 3
    /\ ops[2].kind = "Cond"
    /\ ops[MaxOps].kind = "AllocBoxedPair"

\* C10: every top-level Ret, RetVoid, Unreachable or Call is an atom of its
\* own, holding that one op and an empty decision map, and no other atom
\* holds it.
C10_BoundaryOpsAreSingletonAtoms ==
    planned =>
        \A i \in 1..Len(ops) :
            ops[i].kind \in BoundaryKinds =>
                /\ \E k \in 1..Len(atoms) : atoms[k].ops = <<ops[i]>>
                /\ \A k \in 1..Len(atoms) :
                       (\E j \in 1..Len(atoms[k].ops) : atoms[k].ops[j] = ops[i]) =>
                           /\ atoms[k].ops = <<ops[i]>>
                           /\ DOMAIN atoms[k].box_sources = {}

\* C10's case: an allocation with a pending decision, then two boundary ops
\* in a row, the second one last.
C10_Witness ==
    /\ planned
    /\ Len(ops) = 3
    /\ ops[1].kind = "AllocInt"
    /\ ops[2].kind = "Call"
    /\ ops[3].kind = "Ret"
    /\ Len(atoms) = 3
    /\ DOMAIN atoms[1].box_sources = {1}


AllocKinds == {"AllocInt", "AllocBoxedPair"}

\* An op sequence that holds, at any depth, an allocating op or a Ret,
\* RetVoid, Unreachable or Call.
RECURSIVE ContainsAllocOrCheckpoint(_)
ContainsAllocOrCheckpoint(seq) ==
    \E i \in 1..Len(seq) :
        \/ seq[i].kind \in AllocKinds \cup BoundaryKinds
        \/ /\ seq[i].kind = "Cond"
           /\ ContainsAllocOrCheckpoint(seq[i].true_ops \o seq[i].false_ops)

\* A top-level op that atoms cannot span.
IsBoundary(op) ==
    \/ op.kind \in BoundaryKinds
    \/ /\ op.kind = "Cond"
       /\ ContainsAllocOrCheckpoint(op.true_ops \o op.false_ops)

\* The index of the atom that holds the i-th op of the input (0: none).
RECURSIVE AtomOfFrom(_, _, _)
AtomOfFrom(as, k, i) ==
    IF k > Len(as) THEN 0
    ELSE IF i <= Len(as[k].ops) THEN k
    ELSE AtomOfFrom(as, k + 1, i - Len(as[k].ops))

AtomOf(i) == AtomOfFrom(atoms, 1, i)

\* C11: a Cond shares the atom of its neighbouring non-boundary ops if and
\* only if its branches hold, at any depth, no allocating op and no Ret,
\* RetVoid, Unreachable or Call; otherwise it is a singleton atom, cut off
\* from the ops before and after it.
C11_CondMergedIffBranchesClean ==
    planned =>
        \A i \in 1..Len(ops) :
            ops[i].kind = "Cond" =>
                /\ AtomOf(i) # 0
                /\ IF ContainsAllocOrCheckpoint(ops[i].true_ops \o ops[i].false_ops)
                   THEN /\ atoms[AtomOf(i)].ops = <<ops[i]>>
                        /\ DOMAIN atoms[AtomOf(i)].box_sources = {}
                   ELSE \A j \in {i - 1, i + 1} \cap (1..Len(ops)) :
                            ~IsBoundary(ops[j]) => AtomOf(j) = AtomOf(i)

\* C11's case: a Cond with a nested clean Cond merged with the op after
\* it, then a Cond with an allocation two levels down, alone in its atom.
C11_Witness ==
    /\ planned
    /\ Len(ops) = 3
    /\ ops[1].kind = "Cond"
    /\ ops[1].true_ops # <<>>
    /\ ops[1].true_ops[1].kind = "Cond"
    /\ ops[2].kind = "AllocInt"
    /\ ops[3].kind = "Cond"
    /\ ops[3].true_ops[1].kind = "Cond"
    /\ ops[3].true_ops[1].true_ops[1].kind = "AllocBoxedPair"
    /\ Len(atoms) = 2
    /\ atoms[1].ops = <<ops[1], ops[2]>>
    /\ atoms[2].ops = <<ops[3]>>

\* BoxSource::Stack and BoxSource::Heap(size) as the atoms record them.
StackSource == [source |-> "Stack", size |-> "None"]
HeapSource(size) == [source |-> "Heap", size |-> size]

\* C12: for an allocating op of a non-boundary atom the decision is Stack
\* exactly when captures.get(register) is Never, and otherwise Heap with the
\* size of the op's kind: Int's for AllocInt, the pair's for AllocBoxedPair.
C12_BoxSourceFollowsCaptures ==
    planned =>
        \A k \in 1..Len(atoms) : \A j \in 1..Len(atoms[k].ops) :
            LET op == atoms[k].ops[j] IN
            op.kind \in AllocKinds =>
                /\ op.reg \in DOMAIN atoms[k].box_sources
                /\ atoms[k].box_sources[op.reg] =
                       IF captures_get(captures, op.reg) = "Never"
                       THEN StackSource
                       ELSE IF op.kind = "AllocInt"
                       THEN HeapSource("Size16")
                       ELSE HeapSource("Size32")

\* C12's case: one atom with a Stack decision, a Heap decision for an Int
\* and a Heap decision for a pair.
C12_Witness ==
    /\ planned
    /\ Len(atoms) = 1
    /\ Len(ops) = 3
    /\ ops[1].kind = "AllocInt" /\ 1 \notin captures
    /\ ops[2].kind = "AllocInt" /\ 2 \in captures
    /\ ops[3].kind = "AllocBoxedPair" /\ 3 \in captures
    /\ atoms[1].box_sources[3] = HeapSource("Size32")

\* The output registers of the allocating ops of a sequence, those in the
\* branches of its conditionals included.
RECURSIVE AllocRegs(_)
AllocRegs(seq) ==
    UNION { IF seq[i].kind \in AllocKinds THEN {seq[i].reg}
            ELSE IF seq[i].kind = "Cond"
            THEN AllocRegs(seq[i].true_ops \o seq[i].false_ops)
            ELSE {}
            : i \in 1..Len(seq) }

\* C13: every allocating op of the input, at top level or in a branch of
\* a conditional, has its output register in the decision map of exactly one
\* atom of the result.
C13_EveryAllocDecidedOnce ==
    planned =>
        \A reg \in AllocRegs(ops) :
            Cardinality({ k \in 1..Len(atoms) : reg \in DOMAIN atoms[k].box_sources }) = 1

\* C14: no atom has an empty ops list; an empty input gives no atom, and
\* an input of boundary ops only gives one atom per op.
C14_NoEmptyAtom ==
    planned =>
        /\ \A k \in 1..Len(atoms) : atoms[k].ops # <<>>
        /\ ops = <<>> => atoms = <<>>
        /\ (\A i \in 1..Len(ops) : ops[i].kind \in BoundaryKinds) =>
               Len(atoms) = Len(ops)

\* C14's case: the flush finds nothing accumulated before the first
\* boundary op, between two boundary ops in a row, and after the last.
C14_Witness ==
    /\ planned
    /\ Len(ops) = 2
    /\ ops[1].kind = "Call"
    /\ ops[2].kind = "RetVoid"
    /\ Len(atoms) = 2

\* The output registers of the allocating ops that stand in an ops list.
OwnAllocRegs(atom_ops) ==
    { atom_ops[i].reg : i \in { j \in 1..Len(atom_ops) : atom_ops[j].kind \in AllocKinds } }

\* C29: in every atom of the result the keys of the decision map are
\* exactly the output registers of the AllocInt and AllocBoxedPair ops in
\* the atom's own ops list: none of an earlier or later atom, none of a
\* non-allocating op.
C29_DecisionsBelongToTheirAtom ==
    planned =>
        \A k \in 1..Len(atoms) :
            DOMAIN atoms[k].box_sources = OwnAllocRegs(atoms[k].ops)

\* C29's case: two allocating runs with a Call between them and a
\* non-allocating op in the first.
C29_Witness ==
    /\ planned
    /\ MaxOps >= 3
    /\ Len(ops) = MaxOps
    /\ ops[1].kind = "AllocInt"
    /\ ops[2].kind = "Call"
    /\ ops[3].kind = "AllocBoxedPair"
    /\ Len(atoms) >= 3
    /\ DOMAIN atoms[1].box_sources = {1}
    /\ DOMAIN atoms[2].box_sources = {}
    /\ DOMAIN atoms[3].box_sources = {3}

\* A singleton atom of an op atoms cannot span.
SingletonBoundaryAtom(atom) ==
    /\ Len(atom.ops) = 1
    /\ IsBoundary(atom.ops[1])

\* C30: of any two consecutive atoms of the result at least one is the
\* singleton atom of a Ret, RetVoid, Unreachable, Call or Cond that needs a
\* checkpoint: no run of top-level non-boundary ops is split across two
\* atoms.
C30_AtomsAreMaximal ==
    planned =>
        \A k \in 1..(Len(atoms) - 1) :
            SingletonBoundaryAtom(atoms[k]) \/ SingletonBoundaryAtom(atoms[k + 1])

\* C30's case: an allocation and a conditional with clean branches share
\* one atom, which the RetVoid after them ends.
C30_Witness ==
    /\ planned
    /\ MaxOps >= 3
    /\ Len(ops) = MaxOps
    /\ ops[1].kind = "AllocInt"
    /\ ops[2].kind = "Cond"
    /\ ops[3].kind = "RetVoid"
    /\ Len(atoms) >= 2
    /\ Len(atoms[1].ops) = 2
    /\ SingletonBoundaryAtom(atoms[2])

(***************************************************************************)
(* The collector's claims, checked under SpecGC. They compare the memory   *)
(* collect_roots was called on (snap) with the memory it returns.          *)
(***************************************************************************)
SnapMem == [old |-> snap.old, new |-> NewHeap, stack |-> snap.stack, roots |-> snap.roots]

ForwardTypes == {"HeapForward16", "HeapForward32"}

\* A path is a sequence of field selectors: the head or rest of a pair, an
\* element of a vector.
RECURSIVE PathsFrom(_, _)
PathsFrom(m, ref) ==
    LET box == Deref(m, ref) IN
    {<<>>} \cup
        IF box.alloc_type = "Const" THEN {}
        ELSE IF box.type_tag = "Pair"
        THEN { <<<<"head", 0>>>> \o p : p \in PathsFrom(m, box.head) }
                 \cup { <<<<"rest", 0>>>> \o p : p \in PathsFrom(m, box.rest) }
        ELSE IF box.type_tag = "Vector"
        THEN UNION { { <<<<"elem", i>>>> \o p : p \in PathsFrom(m, box.values[i]) }
                     : i \in 1..VectorLen(box) }
        ELSE {}

\* The field a selector reads; NullRef where the box has no such field.
Follow(m, ref, sel) ==
    LET box == Deref(m, ref) IN
    IF box.type_tag = "Pair" /\ sel[1] = "head" THEN box.head
    ELSE IF box.type_tag = "Pair" /\ sel[1] = "rest" THEN box.rest
    ELSE IF box.type_tag = "Vector" /\ sel[1] = "elem" /\ sel[2] \in 1..Len(box.values)
    THEN box.values[sel[2]]
    ELSE NullRef

RECURSIVE Resolve(_, _, _)
Resolve(m, ref, path) ==
    IF path = <<>> THEN ref
    ELSE Resolve(m, Follow(m, ref, Head(path)), Tail(path))

\* The places of references reachable from the roots before the collection:
\* <<root index, path>>.
Places ==
    UNION { { <<i, p>> : p \in PathsFrom(SnapMem, snap.roots[i]) }
            : i \in 1..Len(snap.roots) }

Before(place) == Resolve(SnapMem, snap.roots[place[1]], place[2])
After(place) == Resolve(Mem, roots[place[1]], place[2])

\* The observable value of a box: its scalar, its symbol's name through the
\* heap's interner, its length and its elements.
RECURSIVE Val(_, _, _)
Val(m, names_of, ref) ==
    LET box == Deref(m, ref) IN
    IF box.alloc_type \in ForwardTypes \cup {"Dangling"}
    THEN [t |-> "Invalid", v |-> <<>>, elems |-> <<>>]
    ELSE IF box.type_tag = "Int"
    THEN [t |-> "Int", v |-> <<box.value>>, elems |-> <<>>]
    ELSE IF box.type_tag = "Sym"
    THEN [t |-> "Sym", v |-> unintern(names_of, box.interned), elems |-> <<>>]
    ELSE IF box.type_tag = "Nil"
    THEN [t |-> "List", v |-> <<0>>, elems |-> <<>>]
    ELSE IF box.type_tag = "Pair"
    THEN [t |-> "List", v |-> <<box.list_length>>,
          elems |-> <<Val(m, names_of, box.head)>>
                        \o Val(m, names_of, box.rest).elems]
    ELSE IF box.type_tag = "Vector"
    THEN [t |-> "Vector", v |-> <<VectorLen(box)>>,
          elems |-> [i \in 1..VectorLen(box) |-> Val(m, names_of, box.values[i])]]
    ELSE [t |-> "Invalid", v |-> <<>>, elems |-> <<>>]

RECURSIVE SumCells(_)
SumCells(refs) ==
    IF refs = {} THEN 0
    ELSE LET r == CHOOSE x \in refs : TRUE IN
         cell_count(SizeOf(Deref(SnapMem, r).alloc_type)) + SumCells(refs \ {r})

\* The heap boxes reachable from the roots before the collection.
LiveHeapBoxes == { r \in { Before(pl) : pl \in Places } : r[1] = "old" }

\* C1: after collect_roots every object that was reachable from a root is
\* reachable from the updated root and has the same observable value.
C1_ValuesPreserved ==
    phase = "done" =>
        \A i \in 1..Len(roots) :
            Val(Mem, new_heap.interner, roots[i])
                = Val(SnapMem, snap.old.interner, snap.roots[i])

\* C2: the returned heap's len() is the sum of the cell counts of the
\* distinct heap boxes that were reachable from the roots.
C2_LenCountsLiveBoxes ==
    phase = "done" => new_heap.len = SumCells(LiveHeapBoxes)

\* C3: two references to the same heap box before collect_roots are
\* references to the same box afterwards.
C3_AliasesPreserved ==
    phase = "done" =>
        \A p \in Places : \A q \in Places :
            (Before(p) = Before(q) /\ Before(p)[1] = "old") => After(p) = After(q)

\* C4: during one collect_roots call no box is copied to the new heap twice.
C4_CopiedAtMostOnce ==
    \A a \in 1..Len(moves) : \A b \in 1..Len(moves) :
        a # b => moves[a].origin # moves[b].origin

\* C7: the name of every Sym box reachable from the roots, read through the
\* new heap's interner after collect_roots, is the name it had through the
\* old heap's interner before.
C7_SymNamesPreserved ==
    phase = "done" =>
        \A p \in Places :
            Deref(SnapMem, Before(p)).type_tag = "Sym" =>
                LET box == Deref(Mem, After(p)) IN
                /\ box.type_tag = "Sym"
                /\ box.alloc_type \notin ForwardTypes
                /\ unintern(new_heap.interner, box.interned)
                       = unintern(snap.old.interner, Deref(SnapMem, Before(p)).interned)

\* C17: after collect_roots every InternedSym that intern_static returned
\* on the old heap's interner uninterns to the same name through the
\* returned heap's interner, whether a rooted Sym box refers to it or not.
C17_StaticSymsSurviveCollectRoots ==
    phase = "done" =>
        \A e \in statics : unintern(new_heap.interner, e[2]) = e[1]

\* The memory after a step.
MemNext == [old |-> old_heap', new |-> new_heap', stack |-> stack', roots |-> roots']

\* The reference visit_box is visiting.
VisitedRef == ReadSlot(Mem, Head(work))

\* C18: the visit of a reference to a Heap16/Heap32 box of the old heap
\* copies the box verbatim to the new heap, leaves a forwarding record with
\* the box's type tag, alloc_type HeapForward16/HeapForward32 by its size
\* and new_location the copy, and sets the reference to the copy; the visit
\* of a reference to the forwarding record sets the reference to
\* new_location and copies nothing. (A Sym's handle is re-interned in the
\* same visit, after the copy.)
C18_MoveLeavesForwardingRecord ==
    [][(Visiting /\ VisitedRef[1] = "old") =>
          LET box == VisitedBox
              dest == <<"new", Len(new_heap.cells) + 1>>
          IN  /\ box.alloc_type \in {"Heap16", "Heap32"} =>
                     /\ phase' = phase
                     /\ Len(new_heap'.cells) = Len(new_heap.cells) + 1
                     /\ new_heap'.len =
                            new_heap.len + (IF box.alloc_type = "Heap16" THEN 1 ELSE 2)
                     /\ [new_heap'.cells[dest[2]] EXCEPT !.interned = box.interned] = box
                     /\ old_heap'.cells[VisitedRef[2]].type_tag = box.type_tag
                     /\ old_heap'.cells[VisitedRef[2]].alloc_type =
                            (IF box.alloc_type = "Heap16"
                             THEN "HeapForward16" ELSE "HeapForward32")
                     /\ old_heap'.cells[VisitedRef[2]].new_location = dest
                     /\ ReadSlot(MemNext, Head(work)) = dest
              /\ box.alloc_type \in ForwardTypes =>
                     /\ ReadSlot(MemNext, Head(work)) = box.new_location
                     /\ Len(new_heap'.cells) = Len(new_heap.cells)
                     /\ new_heap'.len = new_heap.len
                     /\ old_heap' = old_heap
                     /\ moves' = moves
                     /\ work' = Tail(work)]_vars

\* C18's case: two roots referred to one heap box; the first visit moved
\* it, the second went through the forwarding record.
C18_Witness ==
    /\ phase = "done"
    /\ Len(snap.roots) = 2
    /\ snap.roots[1] = snap.roots[2]
    /\ snap.roots[1][1] = "old"
    /\ roots = <<<<"new", 1>>, <<"new", 1>>>>
    /\ Len(moves) >= 1
    /\ new_heap.cells[1].alloc_type = "Heap32"

\* C19: the visit of a reference to a Const box changes neither the
\* reference nor the box nor a heap and visits no child of the box; no
\* Const box is ever copied to the new heap.
C19_ConstLeftAlone ==
    [][/\ (Visiting /\ VisitedBox.alloc_type = "Const") =>
              /\ old_heap' = old_heap
              /\ new_heap' = new_heap
              /\ stack' = stack
              /\ roots' = roots
              /\ moves' = moves
              /\ work' = Tail(work)
       /\ \A i \in 1..Len(moves') : moves'[i].source[1] # "const"
       /\ \A i \in 1..Len(new_heap'.cells) :
              new_heap'.cells[i].alloc_type # "Const"]_vars

\* C19's case: a collection that visited the constant pair, which has
\* children, through a root, and Nil through a field of a moved pair.
C19_Witness ==
    /\ phase = "done"
    /\ \E i \in 1..Len(roots) : snap.roots[i] = ConstPairRef /\ roots[i] = ConstPairRef
    /\ \E i \in 1..Len(new_heap.cells) :
           /\ new_heap.cells[i].type_tag = "Pair"
           /\ new_heap.cells[i].alloc_type = "Heap32"
           /\ new_heap.cells[i].rest = NilRef

\* The references a box holds.
FieldsOf(box) ==
    IF box.type_tag = "Pair" THEN <<box.head, box.rest>>
    ELSE IF box.type_tag = "Vector" THEN SubSeq(box.values, 1, VectorLen(box))
    ELSE <<>>

\* The Stack boxes collect_roots reaches.
VisitedStackRefs == { r \in { Before(pl) : pl \in Places } : r[1] = "stack" }

\* When collect_roots returns: every Stack box it reached is where it was and
\* each of its fields that referred to a heap box refers to a copy of that
\* box in the new heap.
StackFieldsRelocated(stack_after, heap_after) ==
    \A s \in VisitedStackRefs :
        LET pre == snap.stack[s[2]]
            post == stack_after[s[2]]
        IN  /\ post.type_tag = pre.type_tag
            /\ post.alloc_type = "Stack"
            /\ \A k \in 1..Len(FieldsOf(pre)) :
                   LET f == FieldsOf(pre)[k]
                       g == FieldsOf(post)[k]
                   IN  IF f[1] = "old"
                       THEN /\ g[1] = "new"
                            /\ g[2] \in 1..Len(heap_after.cells)
                            /\ heap_after.cells[g[2]].alloc_type \in {"Heap16", "Heap32"}
                            /\ heap_after.cells[g[2]].type_tag
                                   = snap.old.cells[f[2]].type_tag
                       ELSE g = f

\* C20: the visit of a reference to a Stack box copies nothing and leaves
\* the reference as it is, but visits the box's children, so that every
\* heap box a stack pair or stack vector refers to is relocated and the
\* fields of the stack box point to the new copies.
C20_StackVisitedInPlace ==
    [][/\ (Visiting /\ VisitedBox.alloc_type = "Stack" /\ phase' # "panic") =>
              /\ ReadSlot(MemNext, Head(work)) = VisitedRef
              /\ Len(new_heap'.cells) = Len(new_heap.cells)
              /\ moves' = moves
              /\ Len(work') = Len(work) - 1 + Len(FieldsOf(VisitedBox))
              /\ \A k \in 1..Len(FieldsOf(VisitedBox)) :
                     /\ work'[k].at = VisitedRef
                     /\ ReadSlot(Mem, work'[k]) = FieldsOf(VisitedBox)[k]
       /\ (phase = "collect" /\ phase' = "done") =>
              StackFieldsRelocated(stack', new_heap')]_vars

\* The number of elements ListIterator yields: it follows rest while the
\* type tag says Pair.
RECURSIVE IterCount(_, _)
IterCount(m, list_ref) ==
    LET box == Deref(m, list_ref) IN
    IF box.type_tag = "Pair" THEN 1 + IterCount(m, box.rest) ELSE 0

\* A list whose cells are Nil or pairs as Pair::construct builds them. In a
\* forwarding record the bytes of list_length hold new_location, so a
\* forwarding record is no such cell.
RECURSIVE ListWellFormed(_, _)
ListWellFormed(m, list_ref) ==
    LET box == Deref(m, list_ref) IN
    IF box.type_tag = "Nil" THEN box.list_length = 0
    ELSE IF box.type_tag = "Pair" /\ box.alloc_type \in {"Heap32", "Stack", "Const"}
    THEN /\ box.list_length = ListLen(m, box.rest) + 1
         /\ box.list_length = IterCount(m, list_ref)
         /\ ListWellFormed(m, box.rest)
    ELSE FALSE

\* The references reachable from the roots now.
ReachableNow ==
    UNION { { Resolve(Mem, roots[i], p) : p \in PathsFrom(Mem, roots[i]) }
            : i \in 1..Len(roots) }

\* C22: every list the constructors built has in each pair a list_length
\* of 1 plus the length of its rest (0 for Nil), and len() is the number of
\* elements the iteration yields; after collect_roots this holds for every
\* list reachable from the roots.
C22_ListLengthsConsistent ==
    /\ phase = "mutate" => \A r \in ListRefs \cup {ConstPairRef} : ListWellFormed(Mem, r)
    /\ phase = "done" =>
           \A r \in ReachableNow :
               Deref(Mem, r).type_tag = "Pair" => ListWellFormed(Mem, r)

\* C26: after collect_roots no root and no field of an object reachable
\* from the roots refers to the old heap or to a forwarding record: each
\* refers to a box of the new heap, a Const box or a Stack box, and no box
\* of the new heap has a HeapForward16/HeapForward32 header.
C26_NoReferenceIntoOldHeap ==
    phase = "done" =>
        /\ \A r \in ReachableNow :
               /\ r[1] \in {"new", "const", "stack"}
               /\ Deref(Mem, r).alloc_type \in {"Heap16", "Heap32", "Const", "Stack"}
        /\ \A i \in 1..Len(new_heap.cells) :
               new_heap.cells[i].alloc_type \notin ForwardTypes

\* The Sym boxes collect_roots reaches.
ReachedSyms ==
    { r \in { Before(pl) : pl \in Places } : Deref(SnapMem, r).type_tag = "Sym" }

\* C27: during one collect_roots call no Sym box is re-interned twice, a
\* Stack-allocated Sym reached through several roots or paths included;
\* the handle whose name is read from the old heap's interner is the handle
\* the box held when collect_roots was called; and when the call returns
\* every reachable Sym box has been re-interned.
C27_SymsReinternedOnce ==
    /\ \A a \in 1..Len(reinterned) : \A b \in 1..Len(reinterned) :
           a # b => Origin(reinterned[a].box) # Origin(reinterned[b].box)
    /\ \A a \in 1..Len(reinterned) :
           reinterned[a].handle = Deref(SnapMem, Origin(reinterned[a].box)).interned
    /\ phase = "done" =>
           \A r \in ReachedSyms :
               \E a \in 1..Len(reinterned) : Origin(reinterned[a].box) = r

(***************************************************************************)
(* The ID allocator's claim, checked under SpecIds.                        *)
(***************************************************************************)
\* Every ID produced so far, as <<call, position, id>>.
ProducedIds ==
    UNION { { <<c, k, calls[c].ids[k]>> : k \in 1..Len(calls[c].ids) }
            : c \in 1..Len(calls) }

\* C25: the IDs produced by alloc() and alloc_iter(n) calls of several
\* threads, in any interleaving, are pairwise distinct; an iterator that
\* has been drawn to its end produced exactly n consecutive IDs, and the
\* ranges of two calls do not overlap.
C25_IdsAreDistinct ==
    /\ \A a \in ProducedIds : \A b \in ProducedIds :
           a[3] = b[3] => (a[1] = b[1] /\ a[2] = b[2])
    /\ \A c \in 1..Len(calls) :
           /\ \A k \in 1..Len(calls[c].ids) : calls[c].ids[k] >= 1
           /\ calls[c].done =>
                  /\ Len(calls[c].ids) = calls[c].length
                  /\ \A k \in 1..Len(calls[c].ids) :
                         calls[c].ids[k] = calls[c].ids[1] + (k - 1)
    /\ \A c \in 1..Len(calls) : \A d \in 1..Len(calls) :
           c # d =>
               (calls[c].start_raw .. (calls[c].start_raw + calls[c].length - 1))
                   \cap (calls[d].start_raw .. (calls[d].start_raw + calls[d].length - 1))
                   = {}

\* C25's case: two threads hold iterators of two IDs each at the same time
\* and drew from them in turn, and an alloc() was made in between.
C25_Witness ==
    /\ Len(calls) = 3
    /\ calls[1].kind = "alloc_iter" /\ calls[1].thread = 1 /\ calls[1].length = 2
    /\ calls[2].kind = "alloc_iter" /\ calls[2].thread = 2 /\ calls[2].length = 2
    /\ calls[3].kind = "alloc"
    /\ calls[1].done /\ calls[2].done

=============================================================================
